---- MODULE Spec2Model ----
(***************************************************************************)
(* Model of the remote connectivity verifier                               *)
(* (src/connectivity/connectivity_check.py): ssh_run, the two probe        *)
(* functions check_tcp_from_client / check_udp_from_client and the         *)
(* orchestration loop run_all_checks, one step of the model per iteration  *)
(* of the loops of run_all_checks.                                         *)
(***************************************************************************)
EXTENDS Integers, Sequences, FiniteSets, TLC

\* ------------------------------------------------------------------------
\* Bounds of the model
\* ------------------------------------------------------------------------
MaxClients == 2
MaxServers == 2
MaxPorts == 2
MaxCells == 3

\* ------------------------------------------------------------------------
\* Program constants
\* ------------------------------------------------------------------------
TCP_TIMEOUT == 3
UDP_TIMEOUT == 3

\* Python's None
None == "None"

\* None, a value that is not a string
NoneVal == [type |-> "none"]

\* A Python string is a sequence of characters; a value of another type
\* (here an int) has no characters and no .lower() method.
Str(cs) == [type |-> "str", chars |-> cs]
NonStr == [type |-> "int", chars |-> <<>>]

LowerChar(ch) ==
    CASE ch = "T" -> "t"
      [] ch = "C" -> "c"
      [] ch = "P" -> "p"
      [] ch = "U" -> "u"
      [] ch = "D" -> "d"
      [] ch = "S" -> "s"
      [] OTHER -> ch

\* str.lower()
Lower(cs) == [i \in 1..Len(cs) |-> LowerChar(cs[i])]

\* Python truthiness of an Optional[str]
Truthy(s) == s # None /\ s # ""

\* ------------------------------------------------------------------------
\* Input sets
\* ------------------------------------------------------------------------
\* dataclass Client (key and password are opaque credentials)
Client(h, u, b) == [host |-> h, user |-> u, bastion |-> b]

ClientSet ==
    { Client("app1", "cloudadmin", None),
      Client("app1", "root", "bastion.mycorp.local"),
      Client("app2", "cloudadmin", "bastion.mycorp.local") }

ServerSet == {"b7", "b8"}

EnvNames == <<"DT_AZ1", "DT_AZ2">>

\* (service_name, port, protocol)
PortSet ==
    { <<"HTTP", 80, Str(<<"t", "c", "p">>)>>,
      <<"HTTPS", 443, Str(<<"T", "c", "P">>)>>,
      <<"Kerberos", 88, Str(<<"u", "d", "p">>)>>,
      <<"Kerberos", 88, Str(<<"s", "c", "t", "p">>)>>,
      <<"bad", 7, NonStr>> }

SeqsUpTo(S, n) == UNION { [1..m -> S] : m \in 0..n }

NonEmptySeqsUpTo(S, n) == UNION { [1..m -> S] : m \in 1..n }

ClientSeqs(n) == NonEmptySeqsUpTo(ClientSet, n)
PortSeqs == NonEmptySeqsUpTo(PortSet, MaxPorts)
ServerLists == SeqsUpTo(ServerSet, MaxServers)

\* A dict: its keys are distinct, items() iterates in insertion order.
EnvCfgs ==
    UNION { { [i \in 1..n |-> [name |-> EnvNames[i], servers |-> sl[i]]] :
                sl \in [1..n -> ServerLists] } : n \in 1..Len(EnvNames) }

Min(a, b) == IF a <= b THEN a ELSE b

\* ------------------------------------------------------------------------
\* State
\* ------------------------------------------------------------------------
VARIABLES
    CLIENTS,         \* module-level configuration
    IPA_SERVERS,
    REQUIRED_PORTS,
    pc,              \* "running", "returned" or "raised" (run_all_checks)
    ci,              \* index of the client of the current iteration (0: none yet)
    k,               \* number of cells of the current client already probed
    results,         \* dict host -> {"meta": ..., "checks": [...]}
    sessions,        \* SSH resources left open by the ssh_run calls made so far
    last,            \* what the most recent probe did
    nprobes,         \* number of cells processed so far in the run
    established,     \* client indices for which a session was established
    spc,             \* position of one ssh_run call followed step by step
    sarg,            \* its arguments
    remote,          \* what the remote side does during that call
    sopen,           \* SSH resources the call holds open
    sres,            \* what the call is about to return or raise
    mpc,             \* position of main() after run_all_checks
    files,           \* output files written by main(): name -> content
    html,            \* what render_html produced
    esc_pc,          \* position of one html_escape call
    esc_s,           \* its argument
    esc_out,         \* its return value
    tel_pc,          \* position of main() of the local TCP checker
    tel_k,           \* number of (server, port) cells its loop has taken
    tel_results,     \* its lists results, failed and success_list
    tel_failed,
    tel_success_list,
    tel_count,       \* its counters total, success and fail
    tel_last,        \* what the most recent check_tcp call did
    vc_hosts,        \* comparator: key -> data collected from vCenter
    nb_hosts,        \* comparator: key -> data collected from NetBox
    NB_NAME_ALIASES, \* comparator: vCenter name -> NetBox name
    report,          \* what build_comparison returned
    cmp_pc,          \* position of main() of the comparator
    exit_code,       \* exit status of the comparator process
    NAME_MATCH_MODE, \* comparator configuration
    norm_pc,         \* position of the normalize_name calls
    norm_name,       \* the host name given to normalize_name
    norm_out,        \* its result
    norm_again,      \* the result of normalizing norm_out
    isc_pc,          \* position of one iSCSI path check
    isc_variant,     \* which of the two path checks runs
    isc_hosts,       \* the ESXi hosts and their storage devices
    isc_expected,    \* expected_paths
    isc_k,           \* number of examined LUNs already processed
    issues,          \* the list the path check returns
    printed          \* the blocks it printed

runVars == <<CLIENTS, IPA_SERVERS, REQUIRED_PORTS, pc, ci, k, results,
             sessions, last, nprobes, established>>

sshVars == <<spc, sarg, remote, sopen, sres>>

mainVars == <<mpc, files, html>>

escVars == <<esc_pc, esc_s, esc_out>>

telVars == <<tel_pc, tel_k, tel_results, tel_failed, tel_success_list, tel_count, tel_last>>

cmpVars == <<vc_hosts, nb_hosts, NB_NAME_ALIASES, report, cmp_pc, exit_code>>

normVars == <<NAME_MATCH_MODE, norm_pc, norm_name, norm_out, norm_again>>

iscsiVars == <<isc_pc, isc_variant, isc_hosts, isc_expected, isc_k, issues, printed>>

auxVars == <<telVars, cmpVars, normVars, iscsiVars>>

vars == <<runVars, sshVars, mainVars, escVars, auxVars>>

\* The parts of the state that a program not running leaves at rest
SshIdle == spc = "idle" /\ sarg = None /\ remote = None /\ sopen = {} /\ sres = None

\* Nothing rendered yet
NoHtml == [total_checks |-> 0, passed |-> 0, failed |-> 0, rows |-> <<>>]

\* No file written
NoFiles == [n \in {} |-> NoHtml]

MainIdle == mpc = "run_all_checks" /\ files = NoFiles /\ html = NoHtml

EscIdle == esc_pc = "idle" /\ esc_s = NonStr /\ esc_out = <<>>

\* The local TCP checker before its loop: empty lists, counters at zero
NoCount == [total |-> 0, success |-> 0, fail |-> 0]

NoCheck == [outcome |-> "none", ret |-> FALSE, raised |-> FALSE]

TelIdle ==
    /\ tel_pc = "idle" /\ tel_k = 0
    /\ tel_results = <<>> /\ tel_failed = <<>> /\ tel_success_list = <<>>
    /\ tel_count = NoCount /\ tel_last = NoCheck

\* The comparator before collection: empty dicts, no report, still running
NoHosts == [h \in {} |-> NoneVal]

NoAliases == [h \in {} |-> ""]

NoReport ==
    [summary |-> [vcenter_hosts |-> 0, netbox_hosts |-> 0, ok |-> 0, mismatch |-> 0,
                  missing_in_netbox |-> 0, missing_in_vcenter |-> 0],
     hosts |-> NoHosts]

NoExit == -1

CmpIdle ==
    /\ vc_hosts = NoHosts /\ nb_hosts = NoHosts /\ NB_NAME_ALIASES = NoAliases
    /\ report = NoReport /\ cmp_pc = "idle" /\ exit_code = NoExit

NormIdle ==
    /\ NAME_MATCH_MODE = "short" /\ norm_pc = "idle"
    /\ norm_name = NoneVal /\ norm_out = NoneVal /\ norm_again = NoneVal

EXPECTED_PATH_COUNT == 2

IscsiIdle ==
    /\ isc_pc = "idle" /\ isc_variant = "check_iscsi_paths" /\ isc_hosts = <<>>
    /\ isc_expected = EXPECTED_PATH_COUNT /\ isc_k = 0 /\ issues = <<>> /\ printed = <<>>

AuxIdle == TelIdle /\ CmpIdle /\ NormIdle /\ IscsiIdle

config == <<CLIENTS, IPA_SERVERS, REQUIRED_PORTS>>

\* ------------------------------------------------------------------------
\* The nested enumeration of run_all_checks for one client
\* ------------------------------------------------------------------------
PortCells(env, srv) ==
    [pi \in 1..Len(REQUIRED_PORTS) |->
        [env |-> env, server |-> srv, req |-> REQUIRED_PORTS[pi]]]

\* The servers of an environment taken from the last to the first
RECURSIVE ServerCellsReversed(_, _)
ServerCellsReversed(env, servers) ==
    IF servers = <<>> THEN <<>>
    ELSE ServerCellsReversed(env, Tail(servers)) \o PortCells(env, Head(servers))

RECURSIVE ServerCells(_, _)
ServerCells(env, servers) ==
    IF servers = <<>> THEN <<>>
    ELSE PortCells(env, Head(servers)) \o ServerCells(env, Tail(servers))

RECURSIVE EnvCells(_)
EnvCells(envs) ==
    IF envs = <<>> THEN <<>>
    ELSE ServerCells(Head(envs).name, Head(envs).servers) \o EnvCells(Tail(envs))

Cells == EnvCells(IPA_SERVERS)

\* ------------------------------------------------------------------------
\* ssh_run
\* ------------------------------------------------------------------------
\* What the network and the remote side do to one ssh_run call: the step at
\* which it fails ("none": no failure) and the exit status of the command.
FailPoints(c) ==
    (IF Truthy(c.bastion) THEN {"proxy"} ELSE {})
        \cup {"connect", "auth", "exec", "read"}

\* recv_exit_status(): the exit status of the command, -1 when the server
\* sent none
ExitCodes == {-1, 0, 1}

NoRc == -2

Outcomes(c) ==
    { [fp |-> f, rc |-> NoRc] : f \in FailPoints(c) }
      \cup { [fp |-> "none", rc |-> r] : r \in ExitCodes }

\* ssh.connect() returned: the session to the client is established.
SessionEstablished(e) == e.fp \in {"exec", "read", "none"}

\* sock = paramiko.ProxyCommand(...) when client.bastion is set
OpenProxy(c, e) ==
    IF Truthy(c.bastion) /\ e.fp # "proxy" THEN {"relay"} ELSE {}

\* The body of the try block: the resources open when it is left, and how
\* it is left.
\* connects, execs: the number of ssh.connect and exec_command calls made.
TryBody(c, e, open) ==
    CASE e.fp = "connect" ->
            [status |-> "raised", rc |-> NoRc, open |-> open,
             connects |-> 1, execs |-> 0]
      [] e.fp = "auth" ->
            [status |-> "raised", rc |-> NoRc, open |-> open \cup {"transport"},
             connects |-> 1, execs |-> 0]
      [] e.fp \in {"exec", "read"} ->
            [status |-> "raised", rc |-> NoRc, open |-> open \cup {"transport"},
             connects |-> 1, execs |-> 1]
      [] OTHER ->
            [status |-> "returned", rc |-> e.rc, open |-> open \cup {"transport"},
             connects |-> 1, execs |-> 1]

\* finally: try: ssh.close() except Exception: pass
\* close() closes the transport and the socket it runs over; an exception of
\* close() is swallowed and changes neither the result nor the exception.
FinallyLeak(r) == [r EXCEPT !.open = IF r.status = "raised" THEN @ ELSE {}]

Finally(r) == [r EXCEPT !.open = {}]

\* ssh_run with a second connection attempt after a failed one
ssh_run_retry(c, cmd, timeout, e) ==
    IF Truthy(c.bastion) /\ e.fp = "proxy"
    THEN [status |-> "raised", rc |-> NoRc, open |-> {}, connects |-> 0, execs |-> 0]
    ELSE LET r == Finally(TryBody(c, e, OpenProxy(c, e)))
         IN  IF e.fp \in {"connect", "auth"} THEN [r EXCEPT !.connects = 2] ELSE r

ssh_run(c, cmd, timeout, e) ==
    IF Truthy(c.bastion) /\ e.fp = "proxy"
    THEN [status |-> "raised", rc |-> NoRc, open |-> {}, connects |-> 0, execs |-> 0]
    ELSE Finally(TryBody(c, e, OpenProxy(c, e)))

\* ------------------------------------------------------------------------
\* Probes
\* ------------------------------------------------------------------------
\* bash -lc 'timeout T bash -c ">/dev/tcp/server/port" ...'
TcpCmd(server, port) ==
    [dev |-> "tcp", server |-> server, port |-> port, timeout |-> TCP_TIMEOUT]

\* bash -lc 'timeout T bash -c "echo ping >/dev/udp/server/port" ...'
UdpCmd(server, port) ==
    [dev |-> "udp", server |-> server, port |-> port, timeout |-> UDP_TIMEOUT]

\* A probe either raises what ssh_run raised or returns a boolean.
\* calls: the number of probe calls made for the cell.
check_tcp_rc_not_one(c, server, port, e) ==
    LET r == ssh_run(c, TcpCmd(server, port), TCP_TIMEOUT + 5, e) IN
    [status |-> r.status, ret |-> (r.status = "returned" /\ r.rc # 1),
     rc |-> r.rc, open |-> r.open, kind |-> "tcp",
     calls |-> 1, connects |-> r.connects, execs |-> r.execs]

check_tcp_from_client(c, server, port, e) ==
    LET r == ssh_run(c, TcpCmd(server, port), TCP_TIMEOUT + 5, e) IN
    [status |-> r.status, ret |-> (r.status = "returned" /\ r.rc = 0),
     rc |-> r.rc, open |-> r.open, kind |-> "tcp",
     calls |-> 1, connects |-> r.connects, execs |-> r.execs]

check_udp_confirmed(c, server, port, e) ==
    LET r == ssh_run(c, UdpCmd(server, port), UDP_TIMEOUT + 5, e) IN
    [status |-> r.status, ret |-> FALSE,
     rc |-> r.rc, open |-> r.open, kind |-> "udp",
     calls |-> 1, connects |-> r.connects, execs |-> r.execs]

check_udp_from_client(c, server, port, e) ==
    LET r == ssh_run(c, UdpCmd(server, port), UDP_TIMEOUT + 5, e) IN
    [status |-> r.status, ret |-> (r.status = "returned" /\ r.rc = 0),
     rc |-> r.rc, open |-> r.open, kind |-> "udp",
     calls |-> 1, connects |-> r.connects, execs |-> r.execs]

\* ------------------------------------------------------------------------
\* run_all_checks
\* ------------------------------------------------------------------------
IsTcpExact(proto) == proto.chars = <<"t", "c", "p">>

IsTcp(proto) == Lower(proto.chars) = <<"t", "c", "p">>

\* The body of the try statement with a protocol that is neither tcp nor udp
\* rejected instead of probed
TryProbeStrict(c, cell, e) ==
    LET proto == cell.req[3] IN
    IF proto.type = "str" /\ IsTcp(proto)
    THEN check_tcp_from_client(c, cell.server, cell.req[2], e)
    ELSE IF proto.type = "str" /\ Lower(proto.chars) = <<"u", "d", "p">>
    THEN check_udp_from_client(c, cell.server, cell.req[2], e)
    ELSE [status |-> "raised", ret |-> FALSE, rc |-> NoRc, open |-> {}, kind |-> "none",
          calls |-> 0, connects |-> 0, execs |-> 0]

\* The body of the try statement of one cell.
TryProbe(c, cell, e) ==
    LET proto == cell.req[3] IN
    IF proto.type # "str"
    THEN [status |-> "raised", ret |-> FALSE, rc |-> NoRc, open |-> {}, kind |-> "none",
          calls |-> 0, connects |-> 0, execs |-> 0]
    ELSE IF IsTcp(proto)
         THEN check_tcp_from_client(c, cell.server, cell.req[2], e)
         ELSE check_udp_from_client(c, cell.server, cell.req[2], e)

\* except Exception: ok = False
ExceptReraise(r) ==
    [ok |-> r.ret, escaped |-> r.status = "raised"]

ExceptOkTrue(r) ==
    [ok |-> IF r.status = "raised" THEN TRUE ELSE r.ret, escaped |-> FALSE]

ExceptHandler(r) ==
    [ok |-> IF r.status = "raised" THEN FALSE ELSE r.ret, escaped |-> FALSE]

\* results[c.host]["checks"].append({...})
AppendCheckIfOk(checks, entry) ==
    IF entry.ok THEN Append(checks, entry) ELSE checks

\* A failure that sticks: an entry after a failed one is recorded as failed
AppendCheckSticky(checks, entry) ==
    Append(checks, IF checks # <<>> /\ ~checks[Len(checks)].ok
                   THEN [entry EXCEPT !.ok = FALSE] ELSE entry)

\* The entry written over the last one instead of after it
AppendCheckOverwrite(checks, entry) ==
    IF checks = <<>> THEN <<entry>> ELSE [checks EXCEPT ![Len(checks)] = entry]

AppendCheck(checks, entry) == Append(checks, entry)

CheckEntryWithDetail(cell, ok) ==
    [env |-> cell.env, server |-> cell.server, service |-> cell.req[1],
     port |-> cell.req[2], proto |-> cell.req[3], ok |-> ok,
     detail |-> IF ok THEN "" ELSE "error"]

CheckEntry(cell, ok) ==
    [env |-> cell.env, server |-> cell.server, service |-> cell.req[1],
     port |-> cell.req[2], proto |-> cell.req[3], ok |-> ok]

NewClientEntry(c) ==
    [meta |-> [user |-> c.user, bastion |-> c.bastion], checks |-> <<>>]

\* d.setdefault(key, val): an entry that exists is kept
SetDefault(d, key, val) ==
    [x \in DOMAIN d \cup {key} |-> IF x \in DOMAIN d THEN d[x] ELSE val]

SetItem(d, key, val) ==
    [x \in DOMAIN d \cup {key} |-> IF x = key THEN val ELSE d[x]]

NoProbe ==
    [ci |-> 0, k |-> 0, kind |-> "none", rc |-> NoRc,
     status |-> "none", ret |-> FALSE, calls |-> 0, connects |-> 0, execs |-> 0]

Init ==
    /\ REQUIRED_PORTS \in PortSeqs
    /\ IPA_SERVERS \in EnvCfgs
    /\ Len(Cells) <= MaxCells
    /\ CLIENTS \in ClientSeqs(IF Len(Cells) = 0 THEN MaxClients
                               ELSE Min(MaxClients, MaxCells \div Len(Cells)))
    /\ pc = "running"
    /\ ci = 0
    /\ k = 0
    /\ results = [h \in {} |-> NewClientEntry(Client("", "", None))]
    /\ sessions = {}
    /\ last = NoProbe
    /\ nprobes = 0
    /\ established = {}
    /\ SshIdle /\ MainIdle /\ EscIdle /\ AuxIdle

ClientDone == ci = 0 \/ k = Len(Cells)

\* for c in clients: results[c.host] = {...}
StartClient ==
    /\ pc = "running"
    /\ ClientDone
    /\ ci < Len(CLIENTS)
    /\ ci' = ci + 1
    /\ k' = 0
    /\ results' = SetItem(results, CLIENTS[ci + 1].host, NewClientEntry(CLIENTS[ci + 1]))
    /\ UNCHANGED <<config, pc, sessions, last, nprobes, established>>
    /\ UNCHANGED <<sshVars, mainVars, escVars, auxVars>>

\* One iteration of the innermost loop: the probe of one cell and the append.
ProbeCell ==
    /\ pc = "running"
    /\ ci >= 1
    /\ k < Len(Cells)
    /\ \E e \in Outcomes(CLIENTS[ci]) :
        LET c == CLIENTS[ci]
            cell == Cells[k + 1]
            r == TryProbe(c, cell, e)
            h == ExceptHandler(r)
        IN  /\ last' = [ci |-> ci, k |-> k + 1, kind |-> r.kind,
                        rc |-> r.rc, status |-> r.status, ret |-> r.ret,
                        calls |-> r.calls, connects |-> r.connects,
                        execs |-> r.execs]
            /\ sessions' = sessions \cup r.open
            /\ nprobes' = nprobes + 1
            /\ established' =
                  IF r.kind # "none" /\ SessionEstablished(e)
                  THEN established \cup {ci} ELSE established
            /\ IF h.escaped
               THEN /\ pc' = "raised"
                    /\ UNCHANGED <<k, results>>
               ELSE /\ pc' = pc
                    /\ k' = k + 1
                    /\ results' = [results EXCEPT ![c.host].checks =
                                      AppendCheck(@, CheckEntry(cell, h.ok))]
    /\ UNCHANGED <<config, ci>>
    /\ UNCHANGED <<sshVars, mainVars, escVars, auxVars>>

\* return results
Return ==
    /\ pc = "running"
    /\ ClientDone
    /\ ci = Len(CLIENTS)
    /\ pc' = "returned"
    /\ UNCHANGED <<config, ci, k, results, sessions, last, nprobes, established>>
    /\ UNCHANGED <<sshVars, mainVars, escVars, auxVars>>

Next == StartClient \/ ProbeCell \/ Return

Spec == Init /\ [][Next]_vars

FairSpec == Spec /\ WF_vars(Next)

\* ------------------------------------------------------------------------
\* ssh_run, one blocking step at a time
\* ------------------------------------------------------------------------
\* The calls of ssh_run that wait for the remote side, in program order.
BlockingSteps ==
    <<"connect", "exec_command", "stdout.read", "stderr.read", "recv_exit_status">>

NSteps == Len(BlockingSteps)

\* TRUE when the wait of the step ends after the timeout passed to ssh_run:
\* connect and exec_command are given timeout=timeout, the two reads use the
\* channel timeout that exec_command set; recv_exit_status() is given none.
Bounded(step) ==
    step \in {"connect", "exec_command", "stdout.read", "stderr.read"}

\* The remote side answers the first `answers` blocking steps and is silent
\* from then on; its answer to step `err` is an error (0: ProxyCommand cannot
\* be created, NSteps + 1: no error); rc is the exit status it reports.
Remotes == [answers : 0..NSteps, err : 0..(NSteps + 1), rc : ExitCodes]

RunIdle ==
    /\ CLIENTS = <<>> /\ IPA_SERVERS = <<>> /\ REQUIRED_PORTS = <<>>
    /\ pc = "idle" /\ ci = 0 /\ k = 0
    /\ results = [h \in {} |-> NewClientEntry(Client("", "", None))]
    /\ sessions = {} /\ last = NoProbe /\ nprobes = 0 /\ established = {}

\* Nothing returned or raised yet
SshPending == [status |-> "none", rc |-> NoRc]

SshInit ==
    /\ spc = "sock"
    /\ sarg \in [client : ClientSet, timeout : {TCP_TIMEOUT + 5, UDP_TIMEOUT + 5}]
    /\ remote \in Remotes
    /\ sopen = {}
    /\ sres = SshPending
    /\ RunIdle /\ MainIdle /\ EscIdle /\ AuxIdle

SshRaised == [status |-> "raised", rc |-> NoRc]

\* sock = None; if client.bastion: sock = paramiko.ProxyCommand(...)
OpenSock ==
    /\ spc = "sock"
    /\ IF Truthy(sarg.client.bastion)
       THEN IF remote.err = 0
            THEN spc' = "raised" /\ sres' = SshRaised /\ sopen' = sopen
            ELSE spc' = BlockingSteps[1] /\ sres' = sres /\ sopen' = {"proxy"}
       ELSE spc' = BlockingSteps[1] /\ UNCHANGED <<sres, sopen>>
    /\ UNCHANGED <<sarg, remote, runVars, mainVars, escVars, auxVars>>

\* One blocking step: the remote side answers (with an error or not), or it
\* is silent and only a timeout can end the wait. `opens` is what the step
\* leaves open when it is answered, `val` what is returned after the last.
BlockingStep(n, opens, val) ==
    /\ spc = BlockingSteps[n]
    /\ IF n <= remote.answers
       THEN /\ sopen' = sopen \cup opens
            /\ IF remote.err = n
               THEN spc' = "finally" /\ sres' = SshRaised
               ELSE /\ spc' = IF n < NSteps THEN BlockingSteps[n + 1] ELSE "finally"
                    /\ sres' = IF n < NSteps THEN sres ELSE val
       ELSE /\ Bounded(BlockingSteps[n])
            /\ spc' = "finally" /\ sres' = SshRaised /\ sopen' = sopen
    /\ UNCHANGED <<sarg, remote, runVars, mainVars, escVars, auxVars>>

Connect == BlockingStep(1, {"transport"}, SshPending)

ExecCommand == BlockingStep(2, {}, SshPending)

ReadStdout == BlockingStep(3, {}, SshPending)

ReadStderr == BlockingStep(4, {}, SshPending)

RecvExitStatus == BlockingStep(5, {}, [status |-> "returned", rc |-> remote.rc])

\* finally: ssh.close(), then the return or the pending exception
Close ==
    /\ spc = "finally"
    /\ sopen' = {}
    /\ spc' = sres.status
    /\ UNCHANGED <<sarg, remote, sres, runVars, mainVars, escVars, auxVars>>

SshNext ==
    OpenSock \/ Connect \/ ExecCommand \/ ReadStdout \/ ReadStderr
        \/ RecvExitStatus \/ Close

SshSpec == SshInit /\ [][SshNext]_vars

SshFairSpec == SshSpec /\ WF_vars(SshNext)

\* ------------------------------------------------------------------------
\* build_clients and run_all_checks over a configuration of any shape
\* ------------------------------------------------------------------------
ClientFields == {"host", "user", "key", "password", "bastion"}

\* Client(**entry) accepts a dict whose keys are fields of Client and
\* include the two fields without a default; otherwise it raises TypeError.
EntryOk(entry) ==
    /\ DOMAIN entry \subseteq ClientFields
    /\ {"host", "user"} \subseteq DOMAIN entry

\* Client entries of a wrong shape: no host; a key Client does not have
BadClientEntries ==
    { [user |-> "cloudadmin", bastion |-> None],
      [host |-> "app1", user |-> "cloudadmin", bastion |-> None, port |-> "22"] }

\* A required-port entry that is not a triple
BadPortEntries == { <<"HTTP", 80>> }

\* for service, port, proto in ...: the entry unpacks into three names
TupleOk(req) == Len(req) = 3

Malformed ==
    \/ \E i \in 1..Len(CLIENTS) : ~EntryOk(CLIENTS[i])
    \/ \E p \in 1..Len(REQUIRED_PORTS) : ~TupleOk(REQUIRED_PORTS[p])

AnyInit ==
    /\ REQUIRED_PORTS \in NonEmptySeqsUpTo(PortSet \cup BadPortEntries, MaxPorts)
    /\ IPA_SERVERS \in EnvCfgs
    /\ Len(Cells) <= MaxCells
    /\ CLIENTS \in NonEmptySeqsUpTo(ClientSet \cup BadClientEntries,
                       IF Len(Cells) = 0 THEN MaxClients
                       ELSE Min(MaxClients, MaxCells \div Len(Cells)))
    /\ pc = "build_clients"
    /\ ci = 0
    /\ k = 0
    /\ results = [h \in {} |-> NewClientEntry(Client("", "", None))]
    /\ sessions = {}
    /\ last = NoProbe
    /\ nprobes = 0
    /\ established = {}
    /\ SshIdle /\ MainIdle /\ EscIdle /\ AuxIdle

\* return [Client(**entry) for entry in CLIENTS]
build_clients ==
    /\ pc = "build_clients"
    /\ pc' = IF \A i \in 1..Len(CLIENTS) : EntryOk(CLIENTS[i])
             THEN "running" ELSE "raised"
    /\ UNCHANGED <<config, ci, k, results, sessions, last, nprobes, established>>
    /\ UNCHANGED <<sshVars, mainVars, escVars, auxVars>>

\* The loop header unpacks the entry before the try statement is entered.
UnpackOk ==
    /\ pc = "running" /\ ci >= 1 /\ k < Len(Cells)
    /\ TupleOk(Cells[k + 1].req)
    /\ ProbeCell

\* ValueError of the unpacking, raised outside the try statement
UnpackRaises ==
    /\ pc = "running" /\ ci >= 1 /\ k < Len(Cells)
    /\ ~TupleOk(Cells[k + 1].req)
    /\ pc' = "raised"
    /\ UNCHANGED <<config, ci, k, results, sessions, last, nprobes, established>>
    /\ UNCHANGED <<sshVars, mainVars, escVars, auxVars>>

AnyNext == build_clients \/ StartClient \/ UnpackOk \/ UnpackRaises \/ Return

AnySpec == AnyInit /\ [][AnyNext]_vars

\* ------------------------------------------------------------------------
\* run_all_checks with an operator abort
\* ------------------------------------------------------------------------
\* KeyboardInterrupt delivered while the probe of the next cell is in flight:
\* the finally block of ssh_run closes the session, 'except Exception' does
\* not catch the interrupt, and it leaves run_all_checks.
Abort ==
    /\ pc = "running" /\ ci >= 1 /\ k < Len(Cells)
    /\ pc' = "raised"
    /\ last' = [NoProbe EXCEPT !.ci = ci, !.k = k + 1, !.status = "cancelled"]
    /\ UNCHANGED <<config, ci, k, results, sessions, nprobes, established>>
    /\ UNCHANGED <<sshVars, mainVars, escVars, auxVars>>

AbortNext == StartClient \/ ProbeCell \/ Abort \/ Return

AbortSpec == Init /\ [][AbortNext]_vars

\* ------------------------------------------------------------------------
\* html_escape
\* ------------------------------------------------------------------------
\* str.replace(old, new) for a one-character old: left to right, every
\* occurrence, the text put in is not scanned again
RECURSIVE Replace(_, _, _)
Replace(cs, old, new) ==
    IF cs = <<>> THEN <<>>
    ELSE (IF Head(cs) = old THEN new ELSE <<Head(cs)>>) \o Replace(Tail(cs), old, new)

Amp == <<"&", "a", "m", "p", ";">>
Lt == <<"&", "l", "t", ";">>
Gt == <<"&", "g", "t", ";">>

\* s or "": None (and the empty string) give the empty string
OrEmpty(s) == IF s.type = "str" THEN s.chars ELSE <<>>

\* html_escape with the ampersand replaced last
html_escape_amp_last(s) ==
    Replace(Replace(Replace(OrEmpty(s), "<", Lt), ">", Gt), "&", Amp)

html_escape(s) ==
    Replace(Replace(Replace(OrEmpty(s), "&", Amp), "<", Lt), ">", Gt)

MaxStrLen == 3

EscChars == {"&", "<", ">", "\"", "a"}

EscInit ==
    /\ esc_pc = "called"
    /\ esc_s \in {NoneVal} \cup { Str(cs) : cs \in SeqsUpTo(EscChars, MaxStrLen) }
    /\ esc_out = <<>>
    /\ RunIdle /\ SshIdle /\ MainIdle /\ AuxIdle

Escape ==
    /\ esc_pc = "called"
    /\ esc_out' = html_escape(esc_s)
    /\ esc_pc' = "returned"
    /\ UNCHANGED <<esc_s, runVars, sshVars, mainVars, auxVars>>

EscNext == Escape

EscSpec == EscInit /\ [][EscNext]_vars

\* ------------------------------------------------------------------------
\* main: run_all_checks, the JSON file, render_html, the HTML file
\* ------------------------------------------------------------------------
\* The names of the input sets in the order of Python's string comparison
\* (by code point: digits, upper case, lower case)
SortedStrings ==
    <<"DT_AZ1", "DT_AZ2", "HTTP", "HTTPS", "Kerberos",
      "app1", "app2", "b7", "b8", "bad">>

StrRank(x) == CHOOSE i \in 1..Len(SortedStrings) : SortedStrings[i] = x

\* ord() of the characters of the protocol spellings
CharCode(ch) ==
    CASE ch = "C" -> 67 [] ch = "D" -> 68 [] ch = "P" -> 80 [] ch = "S" -> 83
      [] ch = "T" -> 84 [] ch = "U" -> 85 [] ch = "c" -> 99 [] ch = "d" -> 100
      [] ch = "p" -> 112 [] ch = "s" -> 115 [] ch = "t" -> 116 [] ch = "u" -> 117

RECURSIVE CharsLess(_, _)
CharsLess(a, b) ==
    IF b = <<>> THEN FALSE
    ELSE IF a = <<>> THEN TRUE
    ELSE IF Head(a) # Head(b) THEN CharCode(Head(a)) < CharCode(Head(b))
    ELSE CharsLess(Tail(a), Tail(b))

\* A sort key that puts the port first
KeyLessPortFirst(x, y) ==
    \/ x.port < y.port
    \/ x.port = y.port /\ StrRank(x.service) < StrRank(y.service)

\* key=lambda x: (x["service"], x["proto"], x["port"]), compared as tuples
KeyLess(x, y) ==
    \/ StrRank(x.service) < StrRank(y.service)
    \/ /\ x.service = y.service
       /\ \/ CharsLess(x.proto.chars, y.proto.chars)
          \/ x.proto = y.proto /\ x.port < y.port

\* sorted() is stable: an element goes after every one that is not greater
Insert(srt, x) ==
    LET n == Cardinality({ i \in 1..Len(srt) : ~KeyLess(x, srt[i]) })
    IN  SubSeq(srt, 1, n) \o <<x>> \o SubSeq(srt, n + 1, Len(srt))

RECURSIVE SortedChecks(_)
SortedChecks(chks) ==
    IF chks = <<>> THEN <<>>
    ELSE Insert(SortedChecks(SubSeq(chks, 1, Len(chks) - 1)), chks[Len(chks)])

\* sorted() of the keys of a dict
RECURSIVE SortedNames(_)
SortedNames(S) ==
    IF S = {} THEN <<>>
    ELSE LET m == CHOOSE x \in S : \A y \in S : StrRank(x) <= StrRank(y)
         IN  <<m>> \o SortedNames(S \ {m})

RECURSIVE Flatten(_)
Flatten(ss) == IF ss = <<>> THEN <<>> ELSE Head(ss) \o Flatten(Tail(ss))

UpperChar(ch) ==
    CASE ch = "t" -> "T" [] ch = "c" -> "C" [] ch = "p" -> "P"
      [] ch = "u" -> "U" [] ch = "d" -> "D" [] ch = "s" -> "S"
      [] OTHER -> ch

\* str.upper()
Upper(cs) == [i \in 1..Len(cs) |-> UpperChar(cs[i])]

\* One <tr>: the text cells go through html_escape (the names of the input
\* sets hold no character it replaces)
Row(client, chk) ==
    [client |-> client, env |-> chk.env, server |-> chk.server,
     service |-> chk.service, port |-> chk.port,
     proto |-> html_escape(Str(Upper(chk.proto.chars))),
     status |-> IF chk.ok THEN "PASS" ELSE "FAIL"]

\* by_env[env][server], sorted by the key
ServerRows(client, checks, env, server) ==
    LET chks == SortedChecks(SelectSeq(checks,
                    LAMBDA c : c.env = env /\ c.server = server))
    IN  [i \in 1..Len(chks) |-> Row(client, chks[i])]

EnvRows(client, checks, env) ==
    LET servers == SortedNames({ checks[i].server :
                        i \in { j \in 1..Len(checks) : checks[j].env = env } })
    IN  Flatten([s \in 1..Len(servers) |->
                    ServerRows(client, checks, env, servers[s])])

ClientRows(client, checks) ==
    LET envs == SortedNames({ checks[i].env : i \in 1..Len(checks) })
    IN  Flatten([e \in 1..Len(envs) |-> EnvRows(client, checks, envs[e])])

Rows(res) ==
    LET hosts == SortedNames(DOMAIN res)
    IN  Flatten([h \in 1..Len(hosts) |-> ClientRows(hosts[h], res[hosts[h]].checks)])

\* sum(len(v["checks"]) for v in results.values())
RECURSIVE total_checks(_)
total_checks(res) ==
    IF DOMAIN res = {} THEN 0
    ELSE LET h == CHOOSE x \in DOMAIN res : TRUE
         IN  Len(res[h].checks) + total_checks([g \in DOMAIN res \ {h} |-> res[g]])

\* The number of clients with a passed check
passed_clients(res) ==
    Cardinality({ h \in DOMAIN res : \E j \in 1..Len(res[h].checks) : res[h].checks[j].ok })

\* sum(1 for v in results.values() for chk in v["checks"] if chk["ok"])
RECURSIVE passed(_)
passed(res) ==
    IF DOMAIN res = {} THEN 0
    ELSE LET h == CHOOSE x \in DOMAIN res : TRUE
         IN  Len(SelectSeq(res[h].checks, LAMBDA c : c.ok))
                + passed([g \in DOMAIN res \ {h} |-> res[g]])

\* A protocol that is not a string has no upper(): AttributeError
RenderRaises(res) ==
    \E h \in DOMAIN res : \E j \in 1..Len(res[h].checks) :
        res[h].checks[j].proto.type # "str"

render_html(res) ==
    [total_checks |-> total_checks(res),
     passed |-> passed(res),
     failed |-> total_checks(res) - passed(res),
     rows |-> Rows(res)]

\* The matrix dumped while the checks are still running
ChecksStarted == pc \in {"running", "returned"} /\ ci >= 1

\* The point of the run at which main dumps the matrix: run_all_checks has
\* returned
ChecksDone == pc = "returned"

\* json.dump(results, f) after run_all_checks has returned
WriteJson ==
    /\ mpc = "run_all_checks" /\ ChecksDone
    /\ files' = SetItem(files, "json", results)
    /\ mpc' = "render_html"
    /\ UNCHANGED <<html, runVars, sshVars, escVars, auxVars>>

\* html = render_html(results)
RenderHtml ==
    /\ mpc = "render_html"
    /\ IF RenderRaises(results)
       THEN mpc' = "raised" /\ html' = html
       ELSE mpc' = "write_html" /\ html' = render_html(results)
    /\ UNCHANGED <<files, runVars, sshVars, escVars, auxVars>>

\* f.write(html)
WriteHtml ==
    /\ mpc = "write_html"
    /\ files' = SetItem(files, "html", html)
    /\ mpc' = "done"
    /\ UNCHANGED <<html, runVars, sshVars, escVars, auxVars>>

MainNext == StartClient \/ ProbeCell \/ Return \/ WriteJson \/ RenderHtml \/ WriteHtml

MainSpec == Init /\ [][MainNext]_vars

\* ------------------------------------------------------------------------
\* The local TCP checker (src/connectivity/connectivity_telnet.py): check_tcp
\* and main, one step of the model per iteration of the innermost loop
\* ------------------------------------------------------------------------
TIMEOUT == 3

\* What socket.create_connection((host, port), timeout=TIMEOUT) does: it
\* connects, or raises ConnectionRefusedError, socket.timeout or
\* socket.gaierror (all of them OSError)
ConnectOutcomes == {"connected", "refused", "timed_out", "unresolved"}

\* check_tcp without its except clause
check_tcp_unguarded(host, port, o) ==
    [outcome |-> o, ret |-> o = "connected", raised |-> o # "connected", timeout |-> TIMEOUT]

\* check_tcp: True when the connection was made, False when
\* create_connection raised
check_tcp(host, port, o) ==
    [outcome |-> o, ret |-> o = "connected", raised |-> FALSE, timeout |-> TIMEOUT]

\* the loop of main takes every required port for tcp
SkippedNever(proto) == FALSE

\* if proto.lower() != "tcp": continue
Skipped(proto) == Lower(proto.chars) # <<"t", "c", "p">>

\* for env, servers in IPA_SERVERS.items(): for server in servers:
\*     for service, port, proto in REQUIRED_PORTS
TelCells == EnvCells(IPA_SERVERS)

\* The required ports of this program are (str, int, str) triples
TelInit ==
    /\ REQUIRED_PORTS \in { ps \in PortSeqs : \A i \in 1..Len(ps) : ps[i][3].type = "str" }
    /\ IPA_SERVERS \in EnvCfgs
    /\ Len(TelCells) <= MaxCells
    /\ CLIENTS = <<>>
    /\ pc = "idle" /\ ci = 0 /\ k = 0
    /\ results = [h \in {} |-> NewClientEntry(Client("", "", None))]
    /\ sessions = {} /\ last = NoProbe /\ nprobes = 0 /\ established = {}
    /\ SshIdle /\ MainIdle /\ EscIdle
    /\ tel_pc = "loop" /\ tel_k = 0
    /\ tel_results = <<>> /\ tel_failed = <<>> /\ tel_success_list = <<>>
    /\ tel_count = NoCount /\ tel_last = NoCheck
    /\ CmpIdle /\ NormIdle /\ IscsiIdle

\* One iteration whose port is not a TCP port
TelSkip ==
    /\ tel_pc = "loop"
    /\ tel_k < Len(TelCells)
    /\ Skipped(TelCells[tel_k + 1].req[3])
    /\ tel_k' = tel_k + 1
    /\ tel_last' = NoCheck
    /\ UNCHANGED <<tel_pc, tel_results, tel_failed, tel_success_list, tel_count>>
    /\ UNCHANGED <<runVars, sshVars, mainVars, escVars, cmpVars, normVars, iscsiVars>>

\* One iteration whose port is a TCP port
TelCheck ==
    /\ tel_pc = "loop"
    /\ tel_k < Len(TelCells)
    /\ ~Skipped(TelCells[tel_k + 1].req[3])
    /\ \E o \in ConnectOutcomes :
         LET cell   == TelCells[tel_k + 1]
             r      == check_tcp(cell.server, cell.req[2], o)
             status == r.ret
             msg    == IF status THEN "CONNECTED" ELSE "FAILED"
             row    == <<cell.env, cell.server, cell.req[2], cell.req[1], msg>>
         IN  /\ tel_last' = r
             /\ IF r.raised
                THEN /\ tel_pc' = "raised"
                     /\ tel_count' = [tel_count EXCEPT !.total = @ + 1]
                     /\ UNCHANGED <<tel_k, tel_results, tel_failed, tel_success_list>>
                ELSE /\ tel_count' =
                          IF status
                          THEN [tel_count EXCEPT !.total = @ + 1, !.success = @ + 1]
                          ELSE [tel_count EXCEPT !.total = @ + 1, !.fail = @ + 1]
                     /\ tel_success_list' =
                          IF status THEN Append(tel_success_list, row) ELSE tel_success_list
                     /\ tel_failed' = IF status THEN tel_failed ELSE Append(tel_failed, row)
                     /\ tel_results' = Append(tel_results, row)
                     /\ tel_k' = tel_k + 1
                     /\ UNCHANGED tel_pc
    /\ UNCHANGED <<runVars, sshVars, mainVars, escVars, cmpVars, normVars, iscsiVars>>

\* The loops are over: main prints the summary
TelSummary ==
    /\ tel_pc = "loop"
    /\ tel_k = Len(TelCells)
    /\ tel_pc' = "summary"
    /\ UNCHANGED <<tel_k, tel_results, tel_failed, tel_success_list, tel_count, tel_last>>
    /\ UNCHANGED <<runVars, sshVars, mainVars, escVars, cmpVars, normVars, iscsiVars>>

TelNext == TelSkip \/ TelCheck \/ TelSummary

TelSpec == TelInit /\ [][TelNext]_vars

\* ------------------------------------------------------------------------
\* The vCenter/NetBox comparator
\* (src/comparison/vcenter_netbox_host_compare.py): normalize_name
\* ------------------------------------------------------------------------
MaxNameLen == 3

\* The values NAME_MATCH_MODE can hold: the three the code names and any other
NormModes == {"short", "fqdn", "lowercase", "other"}

NormChars == {" ", ".", "a", "T"}

\* str.strip(): leading and trailing whitespace removed
RECURSIVE LStrip(_)
LStrip(cs) == IF cs # <<>> /\ Head(cs) = " " THEN LStrip(Tail(cs)) ELSE cs

RECURSIVE RStrip(_)
RStrip(cs) ==
    IF cs # <<>> /\ cs[Len(cs)] = " " THEN RStrip(SubSeq(cs, 1, Len(cs) - 1)) ELSE cs

Strip(cs) == RStrip(LStrip(cs))

\* n.split(".")[0]: what stands before the first dot
RECURSIVE SplitFirst(_)
SplitFirst(cs) ==
    IF cs = <<>> \/ Head(cs) = "." THEN <<>> ELSE <<Head(cs)>> \o SplitFirst(Tail(cs))

normalize_name(name) ==
    IF name.type # "str" \/ name.chars = <<>>
    THEN NoneVal
    ELSE LET n == Lower(Strip(name.chars)) IN
         IF NAME_MATCH_MODE = "short" THEN Str(SplitFirst(n))
         ELSE IF NAME_MATCH_MODE = "fqdn" THEN Str(n)
         ELSE IF NAME_MATCH_MODE = "lowercase" THEN Str(n)
         ELSE Str(SplitFirst(n))

\* Everything but the comparator at rest
ConnIdle == RunIdle /\ SshIdle /\ MainIdle /\ EscIdle /\ TelIdle /\ IscsiIdle

NormInit ==
    /\ NAME_MATCH_MODE \in NormModes
    /\ norm_pc = "called"
    /\ norm_name \in {NoneVal} \cup { Str(cs) : cs \in SeqsUpTo(NormChars, MaxNameLen) }
    /\ norm_out = NoneVal
    /\ norm_again = NoneVal
    /\ ConnIdle /\ CmpIdle

\* normalize_name(name)
Normalize ==
    /\ norm_pc = "called"
    /\ norm_out' = normalize_name(norm_name)
    /\ norm_pc' = "once"
    /\ UNCHANGED <<NAME_MATCH_MODE, norm_name, norm_again>>
    /\ UNCHANGED <<runVars, sshVars, mainVars, escVars, telVars, cmpVars, iscsiVars>>

\* normalize_name applied to its own result
Renormalize ==
    /\ norm_pc = "once"
    /\ norm_again' = normalize_name(norm_out)
    /\ norm_pc' = "twice"
    /\ UNCHANGED <<NAME_MATCH_MODE, norm_name, norm_out>>
    /\ UNCHANGED <<runVars, sshVars, mainVars, escVars, telVars, cmpVars, iscsiVars>>

NormNext == Normalize \/ Renormalize

NormSpec == NormInit /\ [][NormNext]_vars

\* ------------------------------------------------------------------------
\* The vCenter/NetBox comparator: compare_hosts, build_comparison and main
\* ------------------------------------------------------------------------
MaxHosts == 2

\* Normalized names, the keys of the two dicts
CmpKeys == {"esx01", "esx02", "nb01"}

\* The name vCenter gives the host of a key
VcName(key) ==
    CASE key = "esx01" -> "esx01.lab"
      [] key = "esx02" -> "esx02.lab"
      [] OTHER -> "nb01.lab"

NoVlans == [d \in {} |-> ""]

\* What extract_vcenter_host_data collects for one host (the fields that
\* compare_hosts reads)
VcData ==
    { [mgmt_ip |-> "10.0.0.1", pnics |-> <<"vmnic0">>,
       vmkernels |-> <<[device |-> "vmk0"]>>, vmk_vlan_map |-> [d \in {"vmk0"} |-> "10"]],
      [mgmt_ip |-> None, pnics |-> <<>>, vmkernels |-> <<>>, vmk_vlan_map |-> NoVlans] }

\* What get_netbox_hosts collects for one device
NbData ==
    { [mgmt_ip |-> "10.0.0.1", pnics |-> <<"vmnic0">>,
       vmkernels |-> <<[device |-> "vmk0", vlan_id |-> "10"]>>],
      [mgmt_ip |-> "10.0.0.1", pnics |-> <<"vmnic0">>,
       vmkernels |-> <<[device |-> "vmk0", vlan_id |-> "20"]>>],
      [mgmt_ip |-> "", pnics |-> <<>>, vmkernels |-> <<>>] }

VcHost(key, d) ==
    [hostname |-> VcName(key), mgmt_ip |-> d.mgmt_ip, pnics |-> d.pnics,
     vmkernels |-> d.vmkernels, vmk_vlan_map |-> d.vmk_vlan_map]

NbHost(key, d) ==
    [hostname |-> key, mgmt_ip |-> d.mgmt_ip, pnics |-> d.pnics, vmkernels |-> d.vmkernels]

\* Dicts of at most MaxHosts hosts
VcDicts ==
    UNION { { [key \in ks |-> VcHost(key, f[key])] : f \in [ks -> VcData] } :
              ks \in { s \in SUBSET CmpKeys : Cardinality(s) <= MaxHosts } }

NbDicts ==
    UNION { { [key \in ks |-> NbHost(key, f[key])] : f \in [ks -> NbData] } :
              ks \in { s \in SUBSET CmpKeys : Cardinality(s) <= MaxHosts } }

\* NB_NAME_ALIASES: empty, or one vCenter name mapped to a NetBox name
AliasDicts ==
    { NoAliases,
      [n \in {"esx01.lab"} |-> "nb01"],
      [n \in {"esx02.lab"} |-> "esx01"],
      [n \in {"esx01.lab"} |-> ""] }

\* as_set(x) for a list
as_set(x) == { x[i] : i \in 1..Len(x) }

\* safe(v)
safe(v) == IF v = None THEN "" ELSE v

\* d.get(key) of a dict of hosts
GetHost(d, key) == IF key \in DOMAIN d THEN d[key] ELSE NoneVal

\* d.get(key) of a dict of strings
GetStr(d, key) == IF key \in DOMAIN d THEN d[key] ELSE None

\* {vmk.get("device") for vmk in x.get("vmkernels", []) if vmk.get("device")}
VmkNames(x) == { x.vmkernels[i].device : i \in 1..Len(x.vmkernels) }

\* {vmk.get("device"): vmk.get("vlan_id") for vmk in nb.get("vmkernels", [])}
NbVmkVlan(nb) ==
    [d \in VmkNames(nb) |->
        LET last_i == CHOOSE i \in 1..Len(nb.vmkernels) :
                        /\ nb.vmkernels[i].device = d
                        /\ \A j \in (i + 1)..Len(nb.vmkernels) : nb.vmkernels[j].device # d
        IN  nb.vmkernels[last_i].vlan_id]

\* compare_hosts: the keys of the dict of mismatches it returns (cpu_cores,
\* ram_gb and datastores, compared like mgmt_ip and pnics, are equal on the
\* two sides of every host here)
compare_hosts(vc, nb) ==
    LET nb_vmk_vlan == NbVmkVlan(nb)
        vc_vmk_vlan == vc.vmk_vlan_map
        vmk_vlan_diff ==
            { n \in DOMAIN nb_vmk_vlan \cup DOMAIN vc_vmk_vlan :
                safe(GetStr(vc_vmk_vlan, n)) # safe(GetStr(nb_vmk_vlan, n)) }
    IN  (IF safe(vc.mgmt_ip) # safe(nb.mgmt_ip) THEN {"mgmt_ip"} ELSE {})
          \cup (IF as_set(vc.pnics) # as_set(nb.pnics) THEN {"pnics"} ELSE {})
          \cup (IF VmkNames(vc) # VmkNames(nb) THEN {"vmkernel_names"} ELSE {})
          \cup (IF vmk_vlan_diff # {} THEN {"vmkernel_vlans"} ELSE {})

\* x or y for strings
OrStr(x, y) == IF x = None \/ x = "" THEN y ELSE x

\* x or y for host dicts
OrHost(x, y) == IF x = NoneVal THEN y ELSE x

\* The second loop of build_comparison without its test
NbMissingAlways(key, rep) == TRUE

\* if key not in vc_hosts
NbMissing(key, rep) == key \notin DOMAIN vc_hosts

\* One iteration of the first loop of build_comparison
VcStep(rep, key) ==
    LET vc     == vc_hosts[key]
        nb_key == OrStr(GetStr(NB_NAME_ALIASES, vc.hostname), key)
        nb     == OrHost(GetHost(nb_hosts, nb_key), GetHost(nb_hosts, key))
    IN  IF nb = NoneVal
        THEN [summary |-> [rep.summary EXCEPT !.missing_in_netbox = @ + 1],
              hosts |-> SetItem(rep.hosts, key,
                          [display_name |-> vc.hostname, status |-> "MISSING_IN_NETBOX",
                           mismatches |-> {"missing"}, vcenter |-> vc, netbox |-> NoneVal])]
        ELSE LET mismatches == compare_hosts(vc, nb) IN
             [summary |-> IF mismatches # {}
                          THEN [rep.summary EXCEPT !.mismatch = @ + 1]
                          ELSE [rep.summary EXCEPT !.ok = @ + 1],
              hosts |-> SetItem(rep.hosts, key,
                          [display_name |-> vc.hostname,
                           status |-> IF mismatches # {} THEN "MISMATCH" ELSE "OK",
                           mismatches |-> mismatches, vcenter |-> vc, netbox |-> nb])]

\* One iteration of the second loop
NbStep(rep, key) ==
    LET nb == nb_hosts[key] IN
    IF NbMissing(key, rep)
    THEN [summary |-> [rep.summary EXCEPT !.missing_in_vcenter = @ + 1],
          hosts |-> SetItem(rep.hosts, key,
                      [display_name |-> nb.hostname, status |-> "MISSING_IN_VCENTER",
                       mismatches |-> {"missing"}, vcenter |-> NoneVal, netbox |-> nb])]
    ELSE rep

\* The two loops; no iteration reads what another one wrote, so the order in
\* which the keys of a dict are taken does not show in the report
RECURSIVE VcLoop(_, _)
VcLoop(keys, rep) ==
    IF keys = {} THEN rep
    ELSE LET key == CHOOSE x \in keys : TRUE IN VcLoop(keys \ {key}, VcStep(rep, key))

RECURSIVE NbLoop(_, _)
NbLoop(keys, rep) ==
    IF keys = {} THEN rep
    ELSE LET key == CHOOSE x \in keys : TRUE IN NbLoop(keys \ {key}, NbStep(rep, key))

build_comparison ==
    LET report0 ==
          [summary |-> [vcenter_hosts |-> Cardinality(DOMAIN vc_hosts),
                        netbox_hosts |-> Cardinality(DOMAIN nb_hosts),
                        ok |-> 0, mismatch |-> 0,
                        missing_in_netbox |-> 0, missing_in_vcenter |-> 0],
           hosts |-> NoHosts]
    IN  NbLoop(DOMAIN nb_hosts, VcLoop(DOMAIN vc_hosts, report0))

\* An except clause that catches BaseException
CatchesAll(exc) == TRUE

\* except Exception: SystemExit is not an Exception
IsException(exc) == exc.class # "SystemExit"

\* The status the process ends with when exc is raised inside the try
\* statement of main: sys.exit(1) in the handler, or the code of the
\* SystemExit that passes it
ExitStatus(exc) == IF IsException(exc) THEN 1 ELSE exc.code

CmpInit ==
    /\ vc_hosts \in VcDicts
    /\ nb_hosts \in NbDicts
    /\ NB_NAME_ALIASES \in AliasDicts
    /\ report = NoReport
    /\ cmp_pc = "collect"
    /\ exit_code = NoExit
    /\ ConnIdle /\ NormIdle

\* get_vcenter_hosts() and get_netbox_hosts() return
Collect ==
    /\ cmp_pc = "collect"
    /\ cmp_pc' = "compare"
    /\ UNCHANGED <<vc_hosts, nb_hosts, NB_NAME_ALIASES, report, exit_code>>
    /\ UNCHANGED <<runVars, sshVars, mainVars, escVars, telVars, normVars, iscsiVars>>

\* report = build_comparison(vc_data, nb_data)
Compare ==
    /\ cmp_pc = "compare"
    /\ report' = build_comparison
    /\ cmp_pc' = "write"
    /\ UNCHANGED <<vc_hosts, nb_hosts, NB_NAME_ALIASES, exit_code>>
    /\ UNCHANGED <<runVars, sshVars, mainVars, escVars, telVars, normVars, iscsiVars>>

\* render_html and the writes of the HTML and JSON reports
WriteReport ==
    /\ cmp_pc = "write"
    /\ cmp_pc' = "exit"
    /\ UNCHANGED <<vc_hosts, nb_hosts, NB_NAME_ALIASES, report, exit_code>>
    /\ UNCHANGED <<runVars, sshVars, mainVars, escVars, telVars, normVars, iscsiVars>>

\* Collection, comparison or report writing raises an error
Fail ==
    /\ cmp_pc \in {"collect", "compare", "write"}
    /\ \E class \in {"ConnectionError", "TypeError", "OSError"} :
         exit_code' = ExitStatus([class |-> class, code |-> NoExit])
    /\ cmp_pc' = "failed"
    /\ UNCHANGED <<vc_hosts, nb_hosts, NB_NAME_ALIASES, report>>
    /\ UNCHANGED <<runVars, sshVars, mainVars, escVars, telVars, normVars, iscsiVars>>

\* sys.exit(2) or sys.exit(0), inside the try statement
Exit ==
    /\ cmp_pc = "exit"
    /\ LET s == report.summary
           code == IF s.mismatch # 0 \/ s.missing_in_netbox # 0 \/ s.missing_in_vcenter # 0
                   THEN 2 ELSE 0
       IN  exit_code' = ExitStatus([class |-> "SystemExit", code |-> code])
    /\ cmp_pc' = "exited"
    /\ UNCHANGED <<vc_hosts, nb_hosts, NB_NAME_ALIASES, report>>
    /\ UNCHANGED <<runVars, sshVars, mainVars, escVars, telVars, normVars, iscsiVars>>

CmpNext == Collect \/ Compare \/ WriteReport \/ Fail \/ Exit

CmpSpec == CmpInit /\ [][CmpNext]_vars

\* ------------------------------------------------------------------------
\* The iSCSI path checks: check_iscsi_paths
\* (src/iSCSI-Multipath-check/iscsi-user-chech.py) and
\* check_iscsi_datastore_paths (src/iSCSI-Multipath-check/iscsi-check .py),
\* one step of the model per LUN examined
\* ------------------------------------------------------------------------
MaxLuns == 2

IscsiVariants == {"check_iscsi_paths", "check_iscsi_datastore_paths"}

IscsiHostNames == <<"esx1", "esx2">>

\* The states of the paths of a LUN in multipathInfo or, for a device that
\* multipathInfo does not list, its operationalState
PathLists == { <<>>, <<"active", "dead">>, <<"active", "active">>, <<"ok", "ok">> }

\* A storage device: whether it is an iSCSI disk, whether multipathInfo lists it
Devices ==
    { d \in [iscsi : BOOLEAN, mp : BOOLEAN, states : PathLists] : d.iscsi \/ d.mp }

\* configManager.storageSystem is missing, or its multipathInfo is, or both
\* are there
StorageKinds == {"none", "nomp", "ok"}

\* The hosts of the inventory, with at most MaxLuns devices in all
Inventories ==
    { hs \in [1..Len(IscsiHostNames) ->
                [storage : StorageKinds, luns : SeqsUpTo(Devices, MaxLuns)]] :
        Len(hs[1].luns) + Len(hs[2].luns) <= MaxLuns }

CountState(states, s) == Cardinality({ i \in 1..Len(states) : states[i] = s })

\* get_paths_for_lun: (active_paths, total_paths) from multipathInfo when it
\* lists the device, from operationalState otherwise
get_paths_for_lun(host, dev) ==
    IF host.storage = "ok" /\ dev.mp
    THEN <<CountState(dev.states, "active"), Len(dev.states)>>
    ELSE <<CountState(dev.states, "ok"), Len(dev.states)>>

\* The LUNs one host contributes: check_iscsi_paths takes the iSCSI disks of
\* every host that has a storage system; check_iscsi_datastore_paths takes
\* the LUNs of multipathInfo
RECURSIVE HostLuns(_, _, _, _)
HostLuns(variant, h, host, j) ==
    IF j > Len(host.luns) THEN <<>>
    ELSE LET dev == host.luns[j]
             taken == IF variant = "check_iscsi_paths"
                      THEN host.storage # "none" /\ dev.iscsi
                      ELSE host.storage = "ok" /\ dev.mp
             paths == IF variant = "check_iscsi_paths"
                      THEN get_paths_for_lun(host, dev)
                      ELSE <<CountState(dev.states, "active"), Len(dev.states)>>
         IN  (IF taken
              THEN <<[host |-> IscsiHostNames[h], lun |-> j,
                      active_paths |-> paths[1], total_paths |-> paths[2]]>>
              ELSE <<>>) \o HostLuns(variant, h, host, j + 1)

RECURSIVE ExaminedFrom(_, _, _)
ExaminedFrom(variant, hosts, h) ==
    IF h > Len(hosts) THEN <<>>
    ELSE HostLuns(variant, h, hosts[h], 1) \o ExaminedFrom(variant, hosts, h + 1)

Examined == ExaminedFrom(isc_variant, isc_hosts, 1)

\* active_paths <= expected_paths
IsIssueOrEqual(active_paths, expected_paths) == active_paths <= expected_paths

\* if active_paths < expected_paths: issues.append(...)
IsIssue(active_paths, expected_paths) == active_paths < expected_paths

\* The mark printed in front of the host
Mark(variant, active_paths, expected_paths) ==
    IF active_paths >= expected_paths THEN "OK"
    ELSE IF variant = "check_iscsi_datastore_paths" /\ active_paths > 0 THEN "WARN"
    ELSE "FAIL"

IscsiInit ==
    /\ isc_pc = "loop"
    /\ isc_variant \in IscsiVariants
    /\ isc_hosts \in Inventories
    /\ isc_expected = EXPECTED_PATH_COUNT
    /\ isc_k = 0
    /\ issues = <<>>
    /\ printed = <<>>
    /\ RunIdle /\ SshIdle /\ MainIdle /\ EscIdle /\ TelIdle /\ CmpIdle /\ NormIdle

\* One LUN: its block is printed and, with too few active paths, it is
\* appended to issues
ExamineLun ==
    /\ isc_pc = "loop"
    /\ isc_k < Len(Examined)
    /\ LET x == Examined[isc_k + 1] IN
       /\ printed' = Append(printed,
                        [mark |-> Mark(isc_variant, x.active_paths, isc_expected),
                         host |-> x.host, lun |-> x.lun,
                         active_paths |-> x.active_paths, total_paths |-> x.total_paths])
       /\ issues' = IF IsIssue(x.active_paths, isc_expected)
                    THEN Append(issues, x)
                    ELSE issues
    /\ isc_k' = isc_k + 1
    /\ UNCHANGED <<isc_pc, isc_variant, isc_hosts, isc_expected>>
    /\ UNCHANGED <<runVars, sshVars, mainVars, escVars, telVars, cmpVars, normVars>>

\* return issues
IscsiReturn ==
    /\ isc_pc = "loop"
    /\ isc_k = Len(Examined)
    /\ isc_pc' = "returned"
    /\ UNCHANGED <<isc_variant, isc_hosts, isc_expected, isc_k, issues, printed>>
    /\ UNCHANGED <<runVars, sshVars, mainVars, escVars, telVars, cmpVars, normVars>>

IscsiNext == ExamineLun \/ IscsiReturn

IscsiSpec == IscsiInit /\ [][IscsiNext]_vars

\* ------------------------------------------------------------------------
\* Properties
\* ------------------------------------------------------------------------
RECURSIVE SumServers(_)
SumServers(envs) ==
    IF envs = <<>> THEN 0
    ELSE Len(Head(envs).servers) + SumServers(Tail(envs))

RECURSIVE SumChecks(_)
SumChecks(H) ==
    IF H = {} THEN 0
    ELSE LET h == CHOOSE x \in H : TRUE
         IN  Len(results[h].checks) + SumChecks(H \ {h})

BaseFields == {"env", "server", "service", "port", "proto", "ok"}

ChecksOf(i) == results[CLIENTS[i].host].checks

\* The state right after the probe of cell k of client ci: `last` describes
\* that probe and the k-th entry of the client's list is the one it recorded.
AfterProbe == pc = "running" /\ ci >= 1 /\ k >= 1

AllStringProtos == \A p \in 1..Len(REQUIRED_PORTS) : REQUIRED_PORTS[p][3].type = "str"

CaseVariants(lo, up) ==
    { s \in [1..Len(lo) -> {lo[i] : i \in 1..Len(lo)} \cup {up[i] : i \in 1..Len(up)}] :
        \A i \in 1..Len(lo) : s[i] \in {lo[i], up[i]} }

TcpSpellings == CaseVariants(<<"t", "c", "p">>, <<"T", "C", "P">>)
UdpSpellings == CaseVariants(<<"u", "d", "p">>, <<"U", "D", "P">>)

\* The number of entries of a list that carry the (env, server, RequiredPort)
\* tuple of a cell.
TupleOf(en) == <<en.env, en.server, en.service, en.port, en.proto>>
CellTuple(cell) == <<cell.env, cell.server, cell.req[1], cell.req[2], cell.req[3]>>
CountTuple(checks, t) == Cardinality({ j \in 1..Len(checks) : TupleOf(checks[j]) = t })
CountCells(t) == Cardinality({ j \in 1..Len(Cells) : CellTuple(Cells[j]) = t })

\* C1: after run_all_checks has returned, the number of check entries over
\* all clients of the matrix equals the sum over clients of the sum over
\* environments of (servers of the environment x required ports).
C1_NoProbeDropped ==
    pc = "returned" =>
        SumChecks(DOMAIN results)
            = Len(CLIENTS) * SumServers(IPA_SERVERS) * Len(REQUIRED_PORTS)

\* C2: a probe that raises is recorded as ok = false for its cell and never
\* aborts the run: no exception leaves the loop, and when the run returns
\* every cell of every client has been processed.
C2_FailureIsolation ==
    /\ pc # "raised"
    /\ (AfterProbe /\ last.status = "raised") =>
          /\ last.ci = ci /\ last.k = k
          /\ Len(ChecksOf(ci)) = k
          /\ ChecksOf(ci)[k] = CheckEntry(Cells[k], FALSE)
    /\ pc = "returned" => nprobes = Len(CLIENTS) * Len(Cells)

\* The probe of the first client raised (no session was ever established
\* for it), the run went on to the second client, whose probe passed, and
\* returned.
C2_Witness ==
    /\ pc = "returned"
    /\ Len(CLIENTS) = 2 /\ Len(Cells) = 1 /\ AllStringProtos
    /\ CLIENTS[1].host # CLIENTS[2].host
    /\ 1 \notin established
    /\ ~ChecksOf(1)[1].ok /\ ChecksOf(2)[1].ok
    /\ nprobes = 2

C4_UnreachableClient ==
    pc = "returned" =>
        \A i \in 1..Len(CLIENTS) :
            /\ Len(ChecksOf(i)) = Len(Cells)
            /\ i \notin established =>
                  ChecksOf(i) = [j \in 1..Len(Cells) |-> CheckEntry(Cells[j], FALSE)]

C6_SessionReleased == sessions = {}

\* An ssh_run call through a bastion that raised after its session had been
\* established over the relay.
C6_Witness ==
    /\ AfterProbe /\ k = 1
    /\ Truthy(CLIENTS[ci].bastion)
    /\ last.status = "raised" /\ last.kind = "udp"
    /\ ci \in established
    /\ sessions = {}

\* C7 (as claimed): in a completed run the matrix holds exactly one result
\* for each (client, environment, server, required port) tuple.
C7_ExactlyOnePerTuple ==
    pc = "returned" =>
        \A i \in 1..Len(CLIENTS) : \A j \in 1..Len(Cells) :
            CountTuple(ChecksOf(i), CellTuple(Cells[j])) = 1

\* C7 (amended): in a completed run the list of every client host holds
\* exactly one result per cell of the enumeration (environment, position in
\* the server list, position in the port list), in that order; a tuple has
\* as many results as it has cells, so exactly one when neither its server
\* nor its port is repeated in its list.
C7_ExactlyOnePerCell ==
    pc = "returned" =>
        \A i \in 1..Len(CLIENTS) :
            /\ Len(ChecksOf(i)) = Len(Cells)
            /\ \A j \in 1..Len(Cells) :
                  /\ TupleOf(ChecksOf(i)[j]) = CellTuple(Cells[j])
                  /\ CountTuple(ChecksOf(i), CellTuple(Cells[j]))
                        = CountCells(CellTuple(Cells[j]))

\* A completed run over a server list that repeats a server, one probe of
\* which failed.
C7_Witness ==
    /\ pc = "returned"
    /\ Len(CLIENTS) = 1
    /\ IPA_SERVERS[1].servers = <<"b7", "b7">>
    /\ Len(REQUIRED_PORTS) = 1
    /\ Len(ChecksOf(1)) = 2
    /\ ChecksOf(1)[1].ok /\ ~ChecksOf(1)[2].ok

\* C8: a port whose protocol spells tcp in any letter case is probed with
\* check_tcp_from_client, a port whose protocol spells udp with
\* check_udp_from_client, and the recorded ok is the value the probe returned.
C8_ProbeMatchesProtocol ==
    AfterProbe =>
        LET proto == Cells[k].req[3] IN
        /\ (proto.type = "str" /\ proto.chars \in TcpSpellings) => last.kind = "tcp"
        /\ (proto.type = "str" /\ proto.chars \in UdpSpellings) => last.kind = "udp"
        /\ last.status = "returned" => ChecksOf(ci)[k].ok = last.ret

\* A port declared as "TcP" was probed with the TCP probe, which returned true.
C8_Witness ==
    /\ AfterProbe
    /\ Cells[k].req[3] = Str(<<"T", "c", "P">>)
    /\ last.kind = "tcp" /\ last.status = "returned" /\ last.ret
    /\ ChecksOf(ci)[k].ok

\* C9: a probe that returns returns true if and only if the exit status of
\* the remote command is zero.
C9_TrueIffExitZero ==
    last.status = "returned" =>
        /\ last.kind \in {"tcp", "udp"}
        /\ last.ret <=> (last.rc = 0)

\* A TCP probe whose command ended without an exit status (-1) returned false.
C9_Witness ==
    /\ last.status = "returned" /\ last.kind = "tcp"
    /\ last.rc = -1 /\ ~last.ret

\* C10 (as claimed): a UDP probe whose datagram was sent is recorded as
\* ok = true together with an annotation on that entry marking it send-only.
C10_UdpAnnotated ==
    (AfterProbe /\ last.kind = "udp" /\ last.status = "returned" /\ last.rc = 0) =>
        /\ ChecksOf(ci)[k].ok
        /\ DOMAIN ChecksOf(ci)[k] \ BaseFields # {}

\* C10 (amended): a UDP probe whose datagram was sent is recorded as
\* ok = true, not as a failure, and the entry carries no annotation: it has
\* the same fields as every other entry.
C10_UdpSentIsPass ==
    (AfterProbe /\ last.kind = "udp" /\ last.status = "returned" /\ last.rc = 0) =>
        /\ ChecksOf(ci)[k].ok
        /\ DOMAIN ChecksOf(ci)[k] = BaseFields

\* A UDP probe whose send succeeded has been recorded.
C10_Witness ==
    /\ AfterProbe
    /\ last.kind = "udp" /\ last.status = "returned" /\ last.rc = 0
    /\ Cells[k].req[3] = Str(<<"u", "d", "p">>)
    /\ ChecksOf(ci)[k].ok

\* C11 (as claimed): for every cell the probe function is called exactly one
\* time, and the call opens one session and executes one command, whether the
\* attempt succeeds or fails.
C11_ExactlyOneAttempt ==
    AfterProbe => last.calls = 1 /\ last.connects = 1 /\ last.execs = 1

\* C11 (amended): nothing is retried: for every cell there is at most one
\* probe call, one connection attempt and one command, exactly one of each
\* when the probe returns; the probe is called exactly when the protocol is a
\* string, and no command is executed unless a connection was attempted.
C11_AtMostOneAttempt ==
    AfterProbe =>
        /\ last.calls <= 1 /\ last.connects <= last.calls /\ last.execs <= last.connects
        /\ last.calls = 1 <=> Cells[k].req[3].type = "str"
        /\ last.status = "returned" =>
              last.calls = 1 /\ last.connects = 1 /\ last.execs = 1

\* A probe whose single connection attempt failed: no command was executed
\* and the cell was recorded as failed without a second attempt.
C11_Witness ==
    /\ AfterProbe
    /\ last.calls = 1 /\ last.connects = 1 /\ last.execs = 0
    /\ last.status = "raised"
    /\ ~ChecksOf(ci)[k].ok

\* C12: every blocking step of ssh_run is bounded by the timeout passed to
\* it, so every call of ssh_run eventually returns or raises, even when the
\* remote side never answers.
C12_SshRunEnds == <>(spc \in {"returned", "raised"})

\* C13: a malformed input configuration (a client entry, a server list or a
\* required-port entry of the wrong shape) is reported to the caller before
\* the first probe is executed: no probe ever runs under such a configuration.
C13_MalformedBeforeFirstProbe == Malformed => nprobes = 0

\* C14: when the run is cancelled while probes are outstanding, the session
\* in flight is released, the interrupted probe is resolved as unreachable
\* with a Cancelled detail, and the run goes on to end with a matrix instead
\* of aborting.
C14_CancelEndsWithMatrix ==
    last.status = "cancelled" =>
        /\ sessions = {}
        /\ pc # "raised"
        /\ Len(ChecksOf(last.ci)) >= last.k
        /\ ~ChecksOf(last.ci)[last.k].ok
        /\ "detail" \in DOMAIN ChecksOf(last.ci)[last.k]
        /\ ChecksOf(last.ci)[last.k].detail = "Cancelled"

\* The place of the j-th cell of the nested enumeration, by counting: with P
\* required ports the j-th cell is port ((j-1) mod P) + 1 of server slot
\* ((j-1) div P) + 1, the slots being the servers of the environments in
\* declared order, each list in list order.
ServersBefore(e) == SumServers(SubSeq(IPA_SERVERS, 1, e - 1))

EnvOfSlot(q) ==
    CHOOSE e \in 1..Len(IPA_SERVERS) :
        ServersBefore(e) < q /\ q <= ServersBefore(e) + Len(IPA_SERVERS[e].servers)

NthTuple(j) ==
    LET P == Len(REQUIRED_PORTS)
        q == ((j - 1) \div P) + 1
        p == ((j - 1) % P) + 1
        e == EnvOfSlot(q)
    IN  <<IPA_SERVERS[e].name, IPA_SERVERS[e].servers[q - ServersBefore(e)],
          REQUIRED_PORTS[p][1], REQUIRED_PORTS[p][2], REQUIRED_PORTS[p][3]>>

\* C15: the result sequence of a client follows declaration order:
\* environments in declared order, within an environment the servers in list
\* order, within a server the ports in list order; at every moment of the
\* run the k-th entry of a list is the k-th cell of that nested enumeration.
C15_DeclarationOrder ==
    \A h \in DOMAIN results :
        /\ Len(results[h].checks) <= SumServers(IPA_SERVERS) * Len(REQUIRED_PORTS)
        /\ \A j \in 1..Len(results[h].checks) :
              TupleOf(results[h].checks[j]) = NthTuple(j)

\* A completed run over two environments whose servers are declared in an
\* order that is not the sorted one: b8, b7 in the first, b7 in the second.
C15_Witness ==
    /\ pc = "returned"
    /\ Len(CLIENTS) = 1
    /\ Len(IPA_SERVERS) = 2
    /\ IPA_SERVERS[1].servers = <<"b8", "b7">>
    /\ IPA_SERVERS[2].servers = <<"b7">>
    /\ [j \in 1..3 |-> <<ChecksOf(1)[j].env, ChecksOf(1)[j].server>>]
          = << <<"DT_AZ1", "b8">>, <<"DT_AZ1", "b7">>, <<"DT_AZ2", "b7">> >>

\* C18: probe outcomes are independent and the run is deterministic: in
\* every history of earlier probes the ok recorded for a cell is decided by
\* that cell's own probe alone - it is true exactly when the probe returned
\* with exit status zero - so two runs over the same configuration whose
\* probes behave the same record the same pattern of ok values.
C18_OkFromOwnProbeOnly ==
    AfterProbe =>
        /\ last.ci = ci /\ last.k = k
        /\ ChecksOf(ci)[k].ok <=> (last.status = "returned" /\ last.rc = 0)

\* A probe that passed right after a probe of the same client that failed.
C18_Witness ==
    /\ AfterProbe /\ k >= 2
    /\ ~ChecksOf(ci)[k - 1].ok
    /\ ChecksOf(ci)[k].ok
    /\ last.status = "returned" /\ last.rc = 0

\* C19: no two probes write the same result slot: a probe appends exactly
\* one new entry to the list of its own client, changes and removes no
\* earlier entry of it, and leaves the list of every other client alone.
C19_AppendOnlyOwnList ==
    [][nprobes' = nprobes + 1 =>
          LET h == CLIENTS[ci].host
              old == results[h].checks
              new == results'[h].checks
          IN  /\ DOMAIN results' = DOMAIN results
              /\ Len(new) = Len(old) + 1
              /\ SubSeq(new, 1, Len(old)) = old
              /\ results'[h].meta = results[h].meta
              /\ \A g \in DOMAIN results \ {h} : results'[g] = results[g]]_vars

\* The probe of the second client has appended its entry while the list of
\* the first client, under another host, holds the entry of its own probe.
C19_Witness ==
    /\ AfterProbe /\ ci = 2 /\ k = 1
    /\ CLIENTS[1].host # CLIENTS[2].host
    /\ Len(ChecksOf(1)) = 1 /\ ChecksOf(1)[1].ok
    /\ Len(ChecksOf(2)) = 1 /\ ~ChecksOf(2)[1].ok

\* Lexicographic order of two tuples of numbers of the same length
RECURSIVE IntsLess(_, _)
IntsLess(a, b) ==
    IF a = <<>> THEN FALSE
    ELSE Head(a) < Head(b) \/ (Head(a) = Head(b) /\ IntsLess(Tail(a), Tail(b)))

Rendered == mpc \in {"write_html", "done"}

PlaceKey(r) == <<StrRank(r.client), StrRank(r.env), StrRank(r.server)>>

\* C16 (as claimed): the rows of the report are ordered by client, then
\* environment, then server, then port, and the ordering is applied only
\* after all probes have completed.
C16_OrderedByPort ==
    /\ mpc # "run_all_checks" => pc = "returned"
    /\ Rendered =>
         \A i \in 1..(Len(html.rows) - 1) :
            LET a == html.rows[i]
                b == html.rows[i + 1]
            IN  \/ IntsLess(PlaceKey(a) \o <<a.port>>, PlaceKey(b) \o <<b.port>>)
                \/ PlaceKey(a) \o <<a.port>> = PlaceKey(b) \o <<b.port>>

\* C16 (amended): the rows of the report, one per recorded entry, are ordered
\* by client, then environment, then server, then service name, then
\* protocol, then port, and the ordering is applied only after all probes
\* have completed.
C16_OrderedByServiceKey ==
    /\ mpc # "run_all_checks" => pc = "returned"
    /\ Rendered =>
         /\ Len(html.rows) = SumChecks(DOMAIN results)
         /\ \A i \in 1..(Len(html.rows) - 1) :
               LET a == html.rows[i]
                   b == html.rows[i + 1]
                   ka == PlaceKey(a) \o <<StrRank(a.service)>>
                   kb == PlaceKey(b) \o <<StrRank(b.service)>>
               IN  \/ IntsLess(ka, kb)
                   \/ /\ ka = kb
                      /\ \/ CharsLess(a.proto, b.proto)
                         \/ a.proto = b.proto /\ a.port <= b.port

\* A report written for ports declared as Kerberos/88 then HTTPS/443 on one
\* server: the HTTPS row comes first, the larger port before the smaller.
C16_Witness ==
    /\ mpc = "done"
    /\ Len(CLIENTS) = 1
    /\ Len(REQUIRED_PORTS) = 2 /\ Len(Cells) = 2
    /\ REQUIRED_PORTS[1][1] = "Kerberos" /\ REQUIRED_PORTS[2][1] = "HTTPS"
    /\ Len(html.rows) = 2
    /\ html.rows[1].service = "HTTPS" /\ html.rows[1].port = 443
    /\ html.rows[2].service = "Kerberos" /\ html.rows[2].port = 88

Slots == { hj \in (DOMAIN results) \X (1..MaxCells) : hj[2] <= Len(results[hj[1]].checks) }

\* C17: the summary counts are consistent with the matrix: the total is the
\* number of recorded entries over all clients, passed the number of entries
\* with ok = true, failed the number with ok = false, total = passed + failed.
C17_SummaryCounts ==
    Rendered =>
        /\ html.total_checks = Cardinality(Slots)
        /\ html.passed = Cardinality({ hj \in Slots : results[hj[1]].checks[hj[2]].ok })
        /\ html.failed = Cardinality({ hj \in Slots : ~results[hj[1]].checks[hj[2]].ok })
        /\ html.total_checks = html.passed + html.failed

\* A report over three entries of which two passed.
C17_Witness ==
    /\ mpc = "done"
    /\ Cardinality(Slots) = 3
    /\ html.total_checks = 3 /\ html.passed = 2 /\ html.failed = 1

\* The text html_escape must give, character by character
EscOf(ch) ==
    CASE ch = "&" -> <<"&", "a", "m", "p", ";">>
      [] ch = "<" -> <<"&", "l", "t", ";">>
      [] ch = ">" -> <<"&", "g", "t", ";">>
      [] OTHER -> <<ch>>

\* C20: html_escape replaces every '&' by '&amp;', every '<' by '&lt;' and
\* every '>' by '&gt;', leaves every other character (the double quote
\* included) unchanged and in place, never escapes the ampersand of an entity
\* it produced, and gives the empty string for an empty or missing input.
C20_EscapesCharByChar ==
    esc_pc = "returned" =>
        /\ esc_s.type = "str" =>
              esc_out = Flatten([i \in 1..Len(esc_s.chars) |-> EscOf(esc_s.chars[i])])
        /\ (esc_s.type # "str" \/ esc_s = Str(<<>>)) => esc_out = <<>>

\* The text <&" has been escaped to &lt;&amp;"
C20_Witness ==
    /\ esc_pc = "returned"
    /\ esc_s = Str(<<"<", "&", "\"">>)
    /\ esc_out = <<"&", "l", "t", ";", "&", "a", "m", "p", ";", "\"">>

\* The part of a row that names its check, and the same part of a check
\* shown under a client
RowOf(r) == <<r.client, r.env, r.server, r.service, r.port, r.status>>

ShownAs(h, chk) ==
    <<h, chk.env, chk.server, chk.service, chk.port,
      IF chk.ok THEN "PASS" ELSE "FAIL">>

\* C21: render_html emits exactly one table row per check of the result
\* matrix, under the client the check belongs to, and the status of the row
\* is PASS if and only if the ok of the check is true and FAIL otherwise.
C21_OneRowPerCheck ==
    mpc \notin {"run_all_checks", "render_html"} =>
        /\ Len(html.rows) = Cardinality(Slots)
        /\ \A hj \in Slots :
              LET t == ShownAs(hj[1], results[hj[1]].checks[hj[2]])
              IN  Cardinality({ i \in 1..Len(html.rows) : RowOf(html.rows[i]) = t })
                    = Cardinality({ x \in Slots :
                          ShownAs(x[1], results[x[1]].checks[x[2]]) = t })

\* C22: main runs all checks first, then writes the JSON file, then renders
\* and writes the HTML report; when main completes normally both files exist,
\* and the JSON file holds the same matrix that is rendered to HTML.
C22_JsonThenHtml ==
    /\ mpc # "run_all_checks" => pc = "returned" /\ "json" \in DOMAIN files
    /\ "json" \in DOMAIN files => files["json"] = results
    /\ "html" \in DOMAIN files <=> mpc = "done"
    /\ mpc = "done" =>
          /\ DOMAIN files = {"json", "html"}
          /\ files["html"] = html
          /\ html.total_checks = total_checks(files["json"])
          /\ Len(html.rows) = total_checks(files["json"])

\* main has completed over two clients under different hosts: both files
\* exist and the JSON file holds the entries of both.
C22_Witness ==
    /\ mpc = "done"
    /\ DOMAIN files = {"json", "html"}
    /\ Cardinality(DOMAIN files["json"]) = 2
    /\ total_checks(files["json"]) = 2
    /\ Len(files["html"].rows) = 2

\* The last client configured with host h
LastWithHost(h) ==
    CHOOSE i \in 1..Len(CLIENTS) :
        /\ CLIENTS[i].host = h
        /\ \A j \in (i + 1)..Len(CLIENTS) : CLIENTS[j].host # h

\* C25: the matrix is keyed by client host and the entry of a host is
\* re-initialised when a client with that host is started: the entry of the
\* current client's host holds its meta and only its own results so far, and
\* the returned matrix has one entry per host, holding the meta and the
\* results of the last client with that host only.
C25_LastClientOfHostWins ==
    /\ DOMAIN results = { CLIENTS[i].host : i \in 1..ci }
    /\ ci >= 1 =>
          /\ results[CLIENTS[ci].host].meta = NewClientEntry(CLIENTS[ci]).meta
          /\ Len(ChecksOf(ci)) = k
    /\ pc = "returned" =>
          \A h \in DOMAIN results :
              LET i == LastWithHost(h) IN
              /\ results[h].meta.user = CLIENTS[i].user
              /\ results[h].meta.bastion = CLIENTS[i].bastion
              /\ Len(results[h].checks) = Len(Cells)
              /\ i \notin established =>
                    \A j \in 1..Len(Cells) : ~results[h].checks[j].ok

\* Two clients share the host app1; the first was reachable, the second was
\* not: the returned matrix has the one entry of the second client.
C25_Witness ==
    /\ pc = "returned"
    /\ Len(CLIENTS) = 2 /\ Len(Cells) = 1
    /\ CLIENTS[1] = Client("app1", "cloudadmin", None)
    /\ CLIENTS[2] = Client("app1", "root", "bastion.mycorp.local")
    /\ established = {1}
    /\ nprobes = 2
    /\ DOMAIN results = {"app1"}
    /\ results["app1"].meta.user = "root"
    /\ Len(results["app1"].checks) = 1
    /\ ~results["app1"].checks[1].ok

\* C26: a required port whose protocol string is anything other than tcp in
\* some letter case is probed with the UDP probe, neither rejected nor
\* skipped, and recorded with that probe's result; a protocol that is not a
\* string is recorded as ok = false without any probe being run.
C26_UnknownProtocolIsUdp ==
    AfterProbe =>
        LET proto == Cells[k].req[3]
            en == ChecksOf(ci)[k]
        IN  /\ TupleOf(en) = CellTuple(Cells[k])
            /\ (proto.type = "str" /\ proto.chars \notin TcpSpellings) =>
                  /\ last.kind = "udp" /\ last.calls = 1
                  /\ en.ok <=> (last.status = "returned" /\ last.ret)
            /\ proto.type # "str" =>
                  /\ last.kind = "none"
                  /\ last.calls = 0 /\ last.connects = 0 /\ last.execs = 0
                  /\ ~en.ok

\* A port declared with the protocol sctp was probed with the UDP probe,
\* which returned true, and is recorded as passed.
C26_Witness ==
    /\ AfterProbe
    /\ Cells[k].req[3] = Str(<<"s", "c", "t", "p">>)
    /\ last.kind = "udp" /\ last.status = "returned" /\ last.ret
    /\ ChecksOf(ci)[k].ok

\* The rows of a list equal to row
CountRow(rows, row) == Cardinality({ i \in 1..Len(rows) : rows[i] = row })

\* The cells among the first n whose protocol is a spelling of tcp
TcpCellsUpTo(n) == { j \in 1..n : TelCells[j].req[3].chars \in TcpSpellings }

C29_NormalizeIdempotent ==
    norm_pc = "twice" => norm_again = norm_out

\* The keys of the report whose entry has status st
WithStatus(st) == { h \in DOMAIN report.hosts : report.hosts[h].status = st }

\* The NetBox hosts (by key) that the first loop matched with a vCenter host
PairedNb ==
    { n \in DOMAIN nb_hosts :
        \E h \in DOMAIN report.hosts :
            /\ report.hosts[h].status \in {"OK", "MISMATCH"}
            /\ report.hosts[h].netbox = nb_hosts[n] }

Compared == cmp_pc \in {"write", "exit", "exited"}

\* C23: main of the comparator exits with status 0 exactly when the report
\* has no host with a status other than OK, with status 2 when the report has
\* a MISMATCH, MISSING_IN_NETBOX or MISSING_IN_VCENTER host, and with status 1
\* when collection, comparison or report writing raised an error; the
\* statuses 0 and 2 are never turned into 1.
C23_ExitStatus ==
    /\ exit_code = NoExit <=> cmp_pc \notin {"failed", "exited"}
    /\ cmp_pc = "failed" => exit_code = 1
    /\ cmp_pc = "exited" =>
         /\ exit_code \in {0, 2}
         /\ exit_code = 0 <=> \A h \in DOMAIN report.hosts : report.hosts[h].status = "OK"
         /\ exit_code = 2 <=>
              WithStatus("MISMATCH") \cup WithStatus("MISSING_IN_NETBOX")
                \cup WithStatus("MISSING_IN_VCENTER") # {}

\* A run that ended with status 2 because of one mismatch, next to an OK host
C23_Witness ==
    /\ cmp_pc = "exited"
    /\ exit_code = 2
    /\ Cardinality(WithStatus("MISMATCH")) = 1
    /\ Cardinality(WithStatus("OK")) = 1

\* C27: a NetBox host is reported as MISSING_IN_VCENTER if and only if no
\* vCenter host was matched with it.
C27_MissingIffUnpaired ==
    Compared =>
        \A n \in DOMAIN nb_hosts :
            (n \in DOMAIN report.hosts /\ report.hosts[n].status = "MISSING_IN_VCENTER"
               /\ report.hosts[n].netbox = nb_hosts[n])
              <=> n \notin PairedNb

\* C28: every vCenter host has exactly one entry, with a status among OK,
\* MISMATCH and MISSING_IN_NETBOX, and the three counters add up to
\* vcenter_hosts; missing_in_vcenter is the number of MISSING_IN_VCENTER
\* entries; an entry is OK exactly when compare_hosts returned no mismatch.
C28_StatusCounts ==
    Compared =>
        LET s == report.summary IN
        /\ s.vcenter_hosts = Cardinality(DOMAIN vc_hosts)
        /\ s.netbox_hosts = Cardinality(DOMAIN nb_hosts)
        /\ \A h \in DOMAIN vc_hosts :
             /\ h \in DOMAIN report.hosts
             /\ report.hosts[h].vcenter = vc_hosts[h]
             /\ report.hosts[h].status \in {"OK", "MISMATCH", "MISSING_IN_NETBOX"}
        /\ \A h \in DOMAIN report.hosts :
             /\ h \notin DOMAIN vc_hosts <=> report.hosts[h].status = "MISSING_IN_VCENTER"
             /\ report.hosts[h].status = "MISSING_IN_NETBOX" <=> report.hosts[h].netbox = NoneVal
             /\ report.hosts[h].status = "OK" <=> report.hosts[h].mismatches = {}
             /\ report.hosts[h].status \in {"OK", "MISMATCH"} =>
                  report.hosts[h].mismatches =
                      compare_hosts(report.hosts[h].vcenter, report.hosts[h].netbox)
        /\ s.ok = Cardinality(WithStatus("OK"))
        /\ s.mismatch = Cardinality(WithStatus("MISMATCH"))
        /\ s.missing_in_netbox = Cardinality(WithStatus("MISSING_IN_NETBOX"))
        /\ s.missing_in_vcenter = Cardinality(WithStatus("MISSING_IN_VCENTER"))
        /\ s.ok + s.mismatch + s.missing_in_netbox = s.vcenter_hosts

\* A report with an OK host and a host missing in NetBox, and a NetBox host
\* missing in vCenter
C28_Witness ==
    /\ Compared
    /\ report.summary.ok = 1
    /\ report.summary.missing_in_netbox = 1
    /\ report.summary.missing_in_vcenter = 1
    /\ report.summary.vcenter_hosts = 2

\* The issues about one (host, LUN) pair
IssuesOf(host, lun) == { i \in 1..Len(issues) : issues[i].host = host /\ issues[i].lun = lun }

\* C24: the issues are exactly the examined (host, LUN) pairs with fewer
\* active paths than expected: every issue has active_paths < expected_paths
\* and is a LUN that was examined, every examined LUN with
\* active_paths < expected_paths is an issue (once), and a LUN is printed with
\* the OK mark if and only if it is not an issue.
C24_IssuesAreLowPathLuns ==
    /\ Len(printed) = isc_k
    /\ \A i \in 1..Len(issues) :
         /\ issues[i].active_paths < isc_expected
         /\ \E j \in 1..Len(printed) :
              /\ printed[j].host = issues[i].host /\ printed[j].lun = issues[i].lun
              /\ printed[j].active_paths = issues[i].active_paths
              /\ printed[j].total_paths = issues[i].total_paths
    /\ \A j \in 1..Len(printed) :
         LET n == Cardinality(IssuesOf(printed[j].host, printed[j].lun)) IN
         /\ printed[j].host = Examined[j].host /\ printed[j].lun = Examined[j].lun
         /\ printed[j].active_paths = Examined[j].active_paths
         /\ printed[j].active_paths < isc_expected => n = 1
         /\ printed[j].active_paths >= isc_expected => n = 0
         /\ printed[j].mark = "OK" <=> n = 0

\* A finished check of two LUNs, one with enough active paths (printed OK)
\* and one with a single active path (an issue)
C24_Witness ==
    /\ isc_pc = "returned"
    /\ Len(printed) = 2
    /\ Len(issues) = 1
    /\ issues[1].active_paths = 1
    /\ \E j \in 1..2 : printed[j].mark = "OK" /\ printed[j].active_paths = 2

====
